---- MODULE Spec2Model ----
(***************************************************************************)
(* A model of pb (src/main.rs): an orchestrator (main) that builds one     *)
(* shared PixelProvider and spawns one Bot per configured endpoint, the    *)
(* Bot::run loop of every worker, the PixelProvider cursor (get_pixel),    *)
(* the colour quantiser (resolve_color_id) and the wire encoder (pack).    *)
(***************************************************************************)
EXTENDS Integers, Sequences, FiniteSets, TLC

(***************************************************************************)
(* Bounds of the model.                                                    *)
(***************************************************************************)
\* Raster widths and heights range over 0..MaxDim.
MaxDim == 1
\* get_pixel is called at most MaxPulls times in a behaviour.
MaxPulls == 2
\* A peer closes a worker's connection at most MaxCloses times.
MaxCloses == 1
\* pack is applied to x in 0..EdgeSpan and MAX_WIDTH-1-EdgeSpan..MAX_WIDTH-1
\* (likewise y and color_id at the two ends of their ranges).
EdgeSpan == 1
\* resolve_color_id is applied to palette entries moved by at most Jitter
\* in one channel (besides a grid of channel values).
Jitter == 1

(***************************************************************************)
(* Program constants.                                                      *)
(***************************************************************************)
MAX_COLOR_ID == 25
MAX_HEIGHT == 400
MAX_WIDTH == 1590
SIZE == 636000
\* for i in 0..5
SEND_ATTEMPTS == 5

\* UniformDuration::new_inclusive(Duration::from_secs(65), Duration::from_secs(180))
SLEEP_MIN == 65
SLEEP_MAX == 180

\* i32::MAX
I32_MAX == 2147483647

\* The hex digits of the 25 colour literals, "#RRGGBB" as <<R,R,G,G,B,B>>.
COLOR_HEX ==
  << <<15,15,15,15,15,15>>, <<12,2,12,2,12,2>>,   <<8,5,8,5,8,5>>,
     <<4,7,4,7,4,7>>,       <<0,0,0,0,0,0>>,      <<3,10,10,15,15,15>>,
     <<7,1,10,10,14,11>>,   <<4,10,7,6,10,8>>,    <<0,7,4,11,15,3>>,
     <<5,14,3,0,14,11>>,    <<15,15,6,12,5,11>>,  <<15,14,2,5,0,0>>,
     <<15,15,2,1,8,11>>,    <<9,9,2,4,4,15>>,     <<4,13,2,12,9,12>>,
     <<15,15,12,15,4,10>>,  <<15,14,11,4,3,15>>,  <<15,14,8,6,4,8>>,
     <<15,15,5,11,3,6>>,    <<13,10,5,1,0,0>>,    <<9,4,14,0,4,4>>,
     <<5,12,11,15,0,13>>,   <<12,3,13,1,1,7>>,    <<15,12,12,7,0,0>>,
     <<13,3,8,3,0,1>>  >>

\* u8::from_str_radix(two hex digits, 16)
from_str_radix(hi, lo) == 16 * hi + lo

\* COLORS: the palette, entry i+1 of the sequence is the Vec's index i.
COLORS ==
  [ i \in 1..Len(COLOR_HEX) |->
      << from_str_radix(COLOR_HEX[i][1], COLOR_HEX[i][2]),
         from_str_radix(COLOR_HEX[i][3], COLOR_HEX[i][4]),
         from_str_radix(COLOR_HEX[i][5], COLOR_HEX[i][6]) >> ]

(***************************************************************************)
(* PixelProvider::pack                                                     *)
(***************************************************************************)
\* i32::to_le_bytes: the two's-complement bytes of v, lowest first.
to_le_bytes(v) ==
  LET low == IF v >= 0 THEN v ELSE (v + I32_MAX) + 1
      top == IF v >= 0 THEN 0 ELSE 128
  IN << low % 256, (low \div 256) % 256, (low \div 65536) % 256,
        ((low \div 16777216) % 256) + top >>

pack_mut_color_offset(info) ==
  to_le_bytes(info.x + info.y * MAX_WIDTH + SIZE * (info.color_id + 1 * MAX_COLOR_ID))

pack_mut_height(info) ==
  to_le_bytes(info.x + info.y * MAX_HEIGHT + SIZE * (info.color_id + 0 * MAX_COLOR_ID))

\* The i32 sum is computed exactly: on every record the program packs it is
\* far below i32::MAX.
pack(info) ==
  LET value == info.x + info.y * MAX_WIDTH + SIZE * (info.color_id + 0 * MAX_COLOR_ID)
  IN to_le_bytes(value)

(***************************************************************************)
(* PixelProvider::resolve_color_id                                         *)
(***************************************************************************)
Max2(a, b) == IF a >= b THEN a ELSE b
Min2(a, b) == IF a <= b THEN a ELSE b

\* temp: the squared distance of (r,g,b) to palette entry c, in u32.
sq_dist(r, g, b, c) ==
  ( (Max2(r, c[1]) - Min2(r, c[1])) * (Max2(r, c[1]) - Min2(r, c[1]))
  + (Max2(g, c[2]) - Min2(g, c[2])) * (Max2(g, c[2]) - Min2(g, c[2]))
  + (Max2(b, c[3]) - Min2(b, c[3])) * (Max2(b, c[3]) - Min2(b, c[3])) )

NoNearest == << >>

keep_nearest_mut_le(nearest, index, temp) ==
  IF nearest = NoNearest THEN <<index, temp>>
  ELSE IF temp <= nearest[2] THEN <<index, temp>> ELSE nearest

\* nearest.map_or(Some((index, temp)), |(c, t)| if temp < t {..} else {..})
keep_nearest(nearest, index, temp) ==
  IF nearest = NoNearest THEN <<index, temp>>
  ELSE IF temp < nearest[2] THEN <<index, temp>> ELSE nearest

RECURSIVE resolve_scan(_, _, _, _, _)
\* The for loop over COLORS.iter().enumerate(), from Vec index `index` on.
resolve_scan(r, g, b, index, nearest) ==
  IF index >= Len(COLORS)
    THEN [id |-> nearest[1] % 256, exact |-> FALSE]
    ELSE LET temp == sq_dist(r, g, b, COLORS[index + 1]) IN
         IF temp = 0
           THEN [id |-> index % 256, exact |-> TRUE]
           ELSE resolve_scan(r, g, b, index + 1, keep_nearest(nearest, index, temp))

resolve_color_id(r, g, b) == resolve_scan(r, g, b, 0, NoNearest)

(***************************************************************************)
(* The state of the program.                                               *)
(***************************************************************************)
VARIABLES
  image,      \* the decoded raster: [width, height] and whether it is an
              \* 8-bit RGB image (as_rgb8() is Some)
  decodable,  \* whether image::open can decode the configured file
  brush,      \* config.brush: [offset_x, offset_y]
  checks,     \* TRUE iff the build panics on integer overflow (debug profile)
  orch,       \* position of main: "new", "spawn", "exited", "aborted"
  nextBot,    \* index of the next entry of config.bots in main's for loop
  provider,   \* the shared PixelProvider: [initial, current, end], or NoProvider
  lock,       \* the worker holding the Mutex<PixelProvider> guard, or Free
  pc,         \* position of every worker's Bot::run task
  timer,      \* every worker's `timer` JoinHandle: "running" or "finished"
  sleeping,   \* the seconds the task behind every worker's timer sleeps before
              \* it finishes (0: the empty first task, or a finished one)
  link,       \* every worker's connection as the peer left it: "open", "closed"
  conn,       \* every worker's connection handle: the number of the handshake that made it
  handshakes, \* history: connect() calls made for every worker
  dialled,    \* history: the url of every worker's latest connect() call
  lastRecv,   \* every worker's `msg` binding: what connection.next() yielded in
              \* the current round of the while loop (kept once run has ended)
  pixel,      \* every worker's `pixel` local in the Some arm, or NoPixel
  attempt,    \* every worker's failed sends for its current pixel (i of the for loop)
  emitted,    \* history: the records get_pixel returned, in call order, each with
              \* the worker that got it and the frames sent for it
  cut,        \* history: for every worker, the record it held when its peer last
              \* closed the connection and the handle of that connection
  reads,      \* history: the raster positions get_pixel has read
  failure,    \* the error main returned with, or NoFailure
  arg,        \* input of the pure function under check
  res         \* its result

vars == << image, decodable, brush, checks, orch, nextBot, provider, lock, pc, timer,
           sleeping, link, conn, handshakes, dialled, lastRecv, pixel, attempt,
           emitted, cut, reads, failure, arg, res >>

\* config.bots: the endpoints, in the order of the configuration file.
Bots == << "wss://a", "wss://b" >>
NumBots == Len(Bots)

\* The worker ids: `i as i32` of main's enumerate().
Workers == 0 .. NumBots - 1

\* The url of worker i.
Urls == [ i \in Workers |-> Bots[i + 1] ]

NoProvider == [ end |-> TRUE, none |-> TRUE ]
NoPixel == [ none |-> TRUE ]
NoUrl == << >>
Free == 0 - 1
NoArg == << >>
NoRes == << >>
NoMsg == "nothing"
NoCut == [ k |-> 0, conn |-> 0 ]
NoFailure == "none"
NoRead == << >>

\* The colours of the raster: pixel (dx, dy) of the decoded image.
RasterColors ==
  << <<255, 255, 255>>, <<102, 102, 102>>, <<0, 0, 0>>, <<58, 175, 254>>, <<211, 131, 1>> >>

raster_pixel(dx, dy) == RasterColors[((dx + 2 * dy) % Len(RasterColors)) + 1]

Terminated == { "done", "failed", "ended", "panicked" }
Active == { "recv", "lock", "send", "backoff" }
Reconnecting == { "connect" }

(***************************************************************************)
(* PixelProvider::new and PixelProvider::get_pixel                         *)
(***************************************************************************)
\* The Ok value of PixelProvider::new.
provider_new(x, y) ==
  [ initial |-> <<x, y>>, current |-> <<x, y>>, end |-> FALSE ]

\* a - b in u32 when a < b wraps to 2^32 - (b - a), which is above every
\* raster dimension; Wrapped stands for that value in comparisons.
Wrapped == I32_MAX
sub_u32(a, b) == IF a >= b THEN a - b ELSE Wrapped

get_pixel_mut_no_end_test(p) ==
  IF checks /\ (p.current[1] < p.initial[1] \/ p.current[2] < p.initial[2])
    THEN [ self |-> p, out |-> NoPixel, panic |-> TRUE, read |-> NoRead ]
  ELSE IF ~ image.rgb8
    THEN [ self |-> p, out |-> NoPixel, panic |-> TRUE, read |-> NoRead ]
  ELSE
    LET dx == sub_u32(p.current[1], p.initial[1])
        dy == sub_u32(p.current[2], p.initial[2])
        p1 == IF dx >= image.width
                THEN [ p EXCEPT !.current = << 0, p.current[2] + 1 >> ]
                ELSE p
    IN IF dy >= image.height
         THEN [ self |-> [ p1 EXCEPT !.end = TRUE ], out |-> NoPixel, panic |-> FALSE,
                read |-> NoRead ]
       ELSE IF dx >= image.width
         THEN [ self |-> p1, out |-> NoPixel, panic |-> TRUE, read |-> << dx, dy >> ]
       ELSE LET c == raster_pixel(dx, dy) IN
            [ self |-> p1,
              out |-> [ x |-> p1.current[1], y |-> p1.current[2],
                        color_id |-> resolve_color_id(c[1], c[2], c[3]).id ],
              panic |-> FALSE, read |-> << dx, dy >> ]

\* The result of one get_pixel call on provider p: the provider afterwards,
\* the returned Option (NoPixel for None), whether the call panicked and
\* the raster position it read (NoRead if none).
get_pixel(p) ==
  IF p.end THEN [ self |-> p, out |-> NoPixel, panic |-> FALSE, read |-> NoRead ]
  ELSE IF checks /\ (p.current[1] < p.initial[1] \/ p.current[2] < p.initial[2])
    \* `attempt to subtract with overflow`
    THEN [ self |-> p, out |-> NoPixel, panic |-> TRUE, read |-> NoRead ]
  ELSE IF ~ image.rgb8
    \* .expect("Cannot represent given image as rgb8")
    THEN [ self |-> p, out |-> NoPixel, panic |-> TRUE, read |-> NoRead ]
  ELSE
    LET dx == sub_u32(p.current[1], p.initial[1])
        dy == sub_u32(p.current[2], p.initial[2])
        p1 == IF dx >= image.width
                THEN [ p EXCEPT !.current = << 0, p.current[2] + 1 >> ]
                ELSE p
    IN IF dy >= image.height
         THEN [ self |-> [ p1 EXCEPT !.end = TRUE ], out |-> NoPixel, panic |-> FALSE,
                read |-> NoRead ]
       ELSE IF dx >= image.width
         \* rgb.get_pixel(dx, dy) outside the image's bounds
         THEN [ self |-> p1, out |-> NoPixel, panic |-> TRUE, read |-> << dx, dy >> ]
       ELSE LET c == raster_pixel(dx, dy) IN
            [ self |-> p1,
              out |-> [ x |-> p1.current[1], y |-> p1.current[2],
                        color_id |-> resolve_color_id(c[1], c[2], c[3]).id ],
              panic |-> FALSE, read |-> << dx, dy >> ]

(***************************************************************************)
(* Initial state: the configuration has been read, main is about to call   *)
(* PixelProvider::new.                                                     *)
(***************************************************************************)
\* The rasters: every size up to MaxDim as 8-bit RGB, and one image of
\* another pixel format.
Images == [ width : 0 .. MaxDim, height : 0 .. MaxDim, rgb8 : { TRUE } ]
          \cup { [ width |-> 1, height |-> 1, rgb8 |-> FALSE ] }

Brushes == { [ offset_x |-> 0, offset_y |-> 0 ], [ offset_x |-> 1, offset_y |-> 1 ],
             [ offset_x |-> MAX_WIDTH, offset_y |-> 0 ],
             [ offset_x |-> 0, offset_y |-> MAX_HEIGHT ] }

InitWorkers ==
  /\ orch = "new"
  /\ nextBot = 0
  /\ provider = NoProvider
  /\ lock = Free
  /\ pc = [ w \in Workers |-> "idle" ]
  /\ timer = [ w \in Workers |-> "running" ]
  /\ sleeping = [ w \in Workers |-> 0 ]
  /\ link = [ w \in Workers |-> "closed" ]
  /\ conn = [ w \in Workers |-> 0 ]
  /\ handshakes = [ w \in Workers |-> 0 ]
  /\ dialled = [ w \in Workers |-> NoUrl ]
  /\ lastRecv = [ w \in Workers |-> NoMsg ]
  /\ pixel = [ w \in Workers |-> NoPixel ]
  /\ attempt = [ w \in Workers |-> 0 ]
  /\ emitted = << >>
  /\ cut = [ w \in Workers |-> NoCut ]
  /\ reads = { }
  /\ failure = NoFailure

\* The build profile is read only where a u32 subtraction underflows, which
\* takes a raster of width 0 at a brush right of column 0: the other
\* configurations behave alike in both profiles and start with checks off.
Init ==
  /\ image \in Images
  /\ decodable \in BOOLEAN
  /\ brush \in Brushes
  /\ checks \in (IF image.width = 0 /\ brush.offset_x > 0 THEN BOOLEAN ELSE { FALSE })
  /\ InitWorkers
  /\ arg = NoArg
  /\ res = NoRes

config == << image, decodable, brush, checks >>
pure == << arg, res >>
wvars == << pc, timer, sleeping, link, conn, handshakes, dialled, lastRecv, pixel, attempt >>

(***************************************************************************)
(* main                                                                    *)
(***************************************************************************)
new_result_mut_open_first(x, y, can_open) ==
  IF ~ can_open THEN "image"
  ELSE IF x >= MAX_WIDTH THEN "X axis is out of range"
  ELSE IF y >= MAX_HEIGHT THEN "Y axis is out of range"
  ELSE "ok"

\* The outcome of PixelProvider::new(image, x, y): "ok" or the error.
new_result(x, y, can_open) ==
  IF x >= MAX_WIDTH THEN "X axis is out of range"
  ELSE IF y >= MAX_HEIGHT THEN "Y axis is out of range"
  ELSE IF ~ can_open THEN "image"
  ELSE "ok"

\* PixelProvider::new(config.brush.image, offset_x, offset_y)?
ProviderNew ==
  /\ orch = "new"
  /\ LET r == new_result(brush.offset_x, brush.offset_y, decodable) IN
       IF r # "ok"
         THEN /\ orch' = "aborted"
              /\ failure' = r
              /\ provider' = provider
         ELSE /\ orch' = "spawn"
              /\ failure' = failure
              /\ provider' = provider_new(brush.offset_x, brush.offset_y)
  /\ UNCHANGED << config, pure, wvars, nextBot, lock, emitted, cut, reads >>

connect_mut_shared(w, ok) ==
  /\ handshakes' = [ handshakes EXCEPT ![w] = @ + 1 ]
  /\ dialled' = [ dialled EXCEPT ![w] = Urls[w] ]
  /\ IF ok
       THEN /\ conn' = [ v \in Workers |-> handshakes[w] + 1 ]
            /\ link' = [ v \in Workers |-> "open" ]
       ELSE UNCHANGED << conn, link >>

\* Bot::connect: the handshake of worker w, which succeeds (ok) or fails.
connect(w, ok) ==
  /\ handshakes' = [ handshakes EXCEPT ![w] = @ + 1 ]
  /\ dialled' = [ dialled EXCEPT ![w] = Urls[w] ]
  /\ IF ok
       THEN /\ conn' = [ conn EXCEPT ![w] = handshakes[w] + 1 ]
            /\ link' = [ link EXCEPT ![w] = "open" ]
       ELSE UNCHANGED << conn, link >>

\* One round of main's for loop: Bot::new(i, url, ..).await? and tokio::spawn
\* of bot.run(), which runs up to its first connection.next().await.
BotNew(ok) ==
  /\ orch = "spawn"
  /\ nextBot < NumBots
  /\ connect(nextBot, ok)
  /\ IF ok
       THEN /\ pc' = [ pc EXCEPT ![nextBot] = "recv" ]
            /\ nextBot' = nextBot + 1
            /\ orch' = orch
            /\ failure' = failure
       ELSE /\ orch' = "aborted"
            /\ failure' = "handshake"
            /\ UNCHANGED << pc, nextBot >>
  /\ UNCHANGED << config, pure, provider, lock, timer, sleeping, lastRecv, pixel,
                  attempt, emitted, cut, reads >>

\* handles.collect::<Vec<_>>().await; Ok(())
Collect ==
  /\ orch = "spawn"
  /\ nextBot = NumBots
  /\ \A w \in Workers : pc[w] \in Terminated
  /\ orch' = "exited"
  /\ UNCHANGED << config, pure, wvars, nextBot, provider, lock, emitted, cut, reads, failure >>

(***************************************************************************)
(* The environment of a worker: its timer task and its peer.               *)
(***************************************************************************)
Live(w) == orch = "spawn" /\ pc[w] \in Active \cup Reconnecting

\* The task behind `timer` completes.
TimerFire(w) ==
  /\ Live(w)
  /\ timer[w] = "running"
  /\ timer' = [ timer EXCEPT ![w] = "finished" ]
  /\ sleeping' = [ sleeping EXCEPT ![w] = 0 ]
  /\ UNCHANGED << config, pure, orch, nextBot, provider, lock, pc, link, conn,
                  handshakes, dialled, lastRecv, pixel, attempt, emitted, cut, reads, failure >>

\* The peer closes the connection of worker w.
PeerClose(w) ==
  /\ Live(w)
  /\ link[w] = "open"
  /\ conn[w] <= MaxCloses
  /\ link' = [ link EXCEPT ![w] = "closed" ]
  /\ cut' = [ cut EXCEPT ![w] = IF lock = w THEN [ k |-> Len(emitted), conn |-> conn[w] ]
                                            ELSE NoCut ]
  /\ UNCHANGED << config, pure, orch, nextBot, provider, lock, pc, timer, sleeping,
                  conn, handshakes, dialled, lastRecv, pixel, attempt, emitted,
                  reads, failure >>

(***************************************************************************)
(* Bot::run                                                                *)
(***************************************************************************)
\* What self.connection.next().await can yield on worker w's connection:
\* a frame or a transport error on an open one; a close frame,
\* ConnectionClosed/AlreadyClosed, another error or the end of the stream
\* on one the peer has closed.
RecvOutcomes(w) ==
  IF link[w] = "open" THEN { "msg", "fatal" }
  ELSE { "close", "closedErr", "fatal", "none" }

CloseSignals == { "close", "closedErr" }

recv_target_mut_no_timer(w, m) ==
  IF m \in CloseSignals THEN "connect"
  ELSE IF m = "fatal" THEN "failed"
  ELSE IF m = "none" THEN "ended"
  ELSE "lock"

recv_target_mut_retry(w, m) ==
  IF m \in CloseSignals \/ m = "fatal" THEN "connect"
  ELSE IF m = "none" THEN "ended"
  ELSE IF timer[w] = "finished" THEN "lock" ELSE "recv"

\* Where the loop goes after connection.next() yielded m: the match on msg
\* and the timer.is_finished() test.
recv_target(w, m) ==
  IF m \in CloseSignals THEN "connect"
  ELSE IF m = "fatal" THEN "failed"
  ELSE IF m = "none" THEN "ended"
  ELSE IF timer[w] = "finished" THEN "lock" ELSE "recv"

\* One round of `while let Some(msg) = self.connection.next().await` up to
\* its next await. When run ends, the Bot (its connection) and the timer
\* handle are dropped.
Recv(w, m) ==
  /\ orch = "spawn"
  /\ pc[w] = "recv"
  /\ m \in RecvOutcomes(w)
  /\ LET to == recv_target(w, m) IN
       /\ pc' = [ pc EXCEPT ![w] = to ]
       /\ lastRecv' = [ lastRecv EXCEPT ![w] = IF to = "recv" THEN NoMsg ELSE m ]
       /\ IF to \in Terminated
            THEN /\ link' = [ link EXCEPT ![w] = "closed" ]
                 /\ timer' = [ timer EXCEPT ![w] = "dropped" ]
                 /\ sleeping' = [ sleeping EXCEPT ![w] = 0 ]
            ELSE UNCHANGED << link, timer, sleeping >>
  /\ UNCHANGED << config, pure, orch, nextBot, provider, lock, conn,
                  handshakes, dialled, pixel, attempt, emitted, cut, reads, failure >>

reconnect_target_mut_loop(ok) == IF ok THEN "recv" ELSE "connect"

\* self.connection = Self::connect(&self.url).await.unwrap(); continue
reconnect_target(ok) == IF ok THEN "recv" ELSE "panicked"

Reconnect(w, ok) ==
  /\ orch = "spawn"
  /\ pc[w] = "connect"
  /\ connect(w, ok)
  /\ LET to == reconnect_target(ok) IN
       /\ pc' = [ pc EXCEPT ![w] = to ]
       /\ lastRecv' = [ lastRecv EXCEPT ![w] = IF to = "recv" THEN NoMsg ELSE @ ]
       /\ timer' = [ timer EXCEPT ![w] = IF to \in Terminated THEN "dropped" ELSE @ ]
       /\ sleeping' = [ sleeping EXCEPT ![w] = IF to \in Terminated THEN 0 ELSE @ ]
  /\ UNCHANGED << config, pure, orch, nextBot, provider, lock,
                  pixel, attempt, emitted, cut, reads, failure >>

\* self.pixel.lock().await.get_pixel(): the guard is a temporary of the match
\* scrutinee, so it lives until the end of the match statement.
Pull(w) ==
  /\ orch = "spawn"
  /\ pc[w] = "lock"
  /\ lock = Free
  /\ Len(emitted) < MaxPulls
  /\ LET r == get_pixel(provider) IN
       /\ provider' = r.self
       /\ reads' = IF r.read = NoRead THEN reads ELSE reads \cup { r.read }
       /\ IF r.panic \/ r.out = NoPixel
            THEN /\ pc' = [ pc EXCEPT ![w] = IF r.panic THEN "panicked" ELSE "done" ]
                 /\ link' = [ link EXCEPT ![w] = "closed" ]
                 /\ timer' = [ timer EXCEPT ![w] = "dropped" ]
                 /\ sleeping' = [ sleeping EXCEPT ![w] = 0 ]
                 /\ UNCHANGED << lock, pixel, emitted >>
            ELSE /\ pc' = [ pc EXCEPT ![w] = "send" ]
                 /\ lock' = w
                 /\ pixel' = [ pixel EXCEPT ![w] = r.out ]
                 /\ emitted' = Append(emitted, [ rec |-> r.out, by |-> w, sent |-> << >> ])
                 /\ UNCHANGED << link, timer, sleeping >>
  /\ UNCHANGED << config, pure, orch, nextBot, conn, handshakes,
                  dialled, lastRecv, attempt, cut, failure >>

\* The index in emitted of the record worker w holds: the guard is held
\* from the pull on, so it is the latest record.
held(w) == Len(emitted)

\* self.uniform.sample(..): the durations the model draws, both ends of the
\* inclusive range.
SleepSamples == { SLEEP_MIN, SLEEP_MAX }

\* The end of the match statement and line 173: the guard is dropped,
\* timer = self.sleep.perform().await, and the round of the while loop ends.
leave_match(w) ==
  /\ lock' = Free
  /\ pixel' = [ pixel EXCEPT ![w] = NoPixel ]
  /\ attempt' = [ attempt EXCEPT ![w] = 0 ]
  /\ timer' = [ timer EXCEPT ![w] = "running" ]
  /\ \E d \in SleepSamples : sleeping' = [ sleeping EXCEPT ![w] = d ]
  /\ lastRecv' = [ lastRecv EXCEPT ![w] = NoMsg ]
  /\ pc' = [ pc EXCEPT ![w] = "recv" ]

\* self.connection.send(PixelProvider::pack(pixel.clone()).into()).await:
\* a send on a connection the peer has closed fails.
Send(w, ok) ==
  /\ orch = "spawn"
  /\ pc[w] = "send"
  /\ ok => link[w] = "open"
  /\ IF ok
       THEN /\ emitted' = [ emitted EXCEPT ![held(w)].sent = Append(@, pack(pixel[w])) ]
            /\ leave_match(w)
       ELSE /\ attempt' = [ attempt EXCEPT ![w] = @ + 1 ]
            /\ pc' = [ pc EXCEPT ![w] = "backoff" ]
            /\ UNCHANGED << lock, pixel, timer, sleeping, lastRecv, emitted >>
  /\ UNCHANGED << config, pure, orch, nextBot, provider, link, conn, handshakes,
                  dialled, cut, reads, failure >>

more_attempts_mut_six(i) == i < SEND_ATTEMPTS + 1

\* for i in 0..5: whether the loop has another round after i failed sends.
more_attempts(i) == i < SEND_ATTEMPTS

\* tokio::time::sleep(Duration::from_secs(5)).await after a failed send.
Backoff(w) ==
  /\ orch = "spawn"
  /\ pc[w] = "backoff"
  /\ IF more_attempts(attempt[w])
       THEN /\ pc' = [ pc EXCEPT ![w] = "send" ]
            /\ UNCHANGED << lock, pixel, timer, sleeping, lastRecv, attempt >>
       ELSE leave_match(w)
  /\ UNCHANGED << config, pure, orch, nextBot, provider, link, conn, handshakes,
                  dialled, emitted, cut, reads, failure >>

Next ==
  \/ ProviderNew
  \/ \E ok \in BOOLEAN : BotNew(ok)
  \/ Collect
  \/ \E w \in Workers : TimerFire(w)
  \/ \E w \in Workers : PeerClose(w)
  \/ \E w \in Workers : \E m \in RecvOutcomes(w) : Recv(w, m)
  \/ \E w \in Workers : \E ok \in BOOLEAN : Reconnect(w, ok)
  \/ \E w \in Workers : Pull(w)
  \/ \E w \in Workers : \E ok \in BOOLEAN : Send(w, ok)
  \/ \E w \in Workers : Backoff(w)

Spec == Init /\ [][Next]_vars

(***************************************************************************)
(* The pure functions, applied to inputs drawn from bounded sets. The      *)
(* program itself stays in a configuration main rejects.                   *)
(***************************************************************************)
Quiet ==
  /\ image = [ width |-> 0, height |-> 0, rgb8 |-> TRUE ]
  /\ decodable = TRUE
  /\ brush = [ offset_x |-> MAX_WIDTH, offset_y |-> 0 ]
  /\ checks = FALSE
  /\ InitWorkers

\* The values within EdgeSpan of either end of 0 .. n-1.
Edge(n) == (0 .. EdgeSpan) \cup (n - 1 - EdgeSpan .. n - 1)

\* PixelInfo values within the canvas.
PackInputs == [ x : Edge(MAX_WIDTH), y : Edge(MAX_HEIGHT), color_id : Edge(MAX_COLOR_ID) ]

InitPack == Quiet /\ arg \in PackInputs /\ res = NoRes

Pack ==
  /\ res = NoRes
  /\ res' = pack(arg)
  /\ UNCHANGED << config, wvars, orch, nextBot, provider, lock, emitted, cut, reads,
                  failure, arg >>

PackAgain ==
  /\ res # NoRes
  /\ arg' \in PackInputs
  /\ res' = NoRes
  /\ UNCHANGED << config, wvars, orch, nextBot, provider, lock, emitted, cut, reads, failure >>

NextPack == Pack \/ PackAgain

SpecPack == InitPack /\ [][NextPack]_vars

Clip(v) == IF v < 0 THEN 0 ELSE IF v > 255 THEN 255 ELSE v

\* Channel values of the grid of RGB triples.
Channels == { 0, 102, 255 }

\* RGB triples: the palette, each entry moved by up to Jitter in one
\* channel, and a grid.
ResolveInputs ==
  { COLORS[i] : i \in 1 .. Len(COLORS) }
  \cup { [ COLORS[i] EXCEPT ![ch] = Clip(@ + d) ] :
           i \in 1 .. Len(COLORS), ch \in 1 .. 3, d \in (0 - Jitter) .. Jitter }
  \cup { << r, g, b >> : r \in Channels, g \in Channels, b \in Channels }

InitResolve == Quiet /\ arg \in ResolveInputs /\ res = NoRes

Resolve ==
  /\ res = NoRes
  /\ res' = resolve_color_id(arg[1], arg[2], arg[3])
  /\ UNCHANGED << config, wvars, orch, nextBot, provider, lock, emitted, cut, reads,
                  failure, arg >>

ResolveAgain ==
  /\ res # NoRes
  /\ arg' \in ResolveInputs
  /\ res' = NoRes
  /\ UNCHANGED << config, wvars, orch, nextBot, provider, lock, emitted, cut, reads, failure >>

NextResolve == Resolve \/ ResolveAgain

SpecResolve == InitResolve /\ [][NextResolve]_vars

(***************************************************************************)
(* C9, C10: the encoder and the quantiser.                                 *)
(***************************************************************************)
\* The value four little-endian bytes stand for, read as a signed 32-bit
\* integer with a clear sign bit.
LeValue(bytes) == bytes[1] + 256 * bytes[2] + 65536 * bytes[3] + 16777216 * bytes[4]

\* C9: on every record within the canvas, pack returns four bytes, the
\* little-endian signed 32-bit form of x + y*1590 + colorId*636000; and
\* (0,0,0), (1,0,0), (0,1,0), (0,0,1) encode 0, 1, 1590 and 636000.
C9_PackLayout ==
  res # NoRes =>
    /\ Len(res) = 4
    /\ \A i \in 1 .. 4 : res[i] \in 0 .. 255
    /\ res[4] < 128
    /\ LeValue(res) = arg.x + arg.y * 1590 + arg.color_id * 636000
    /\ arg = [ x |-> 0, y |-> 0, color_id |-> 0 ] => res = << 0, 0, 0, 0 >>
    /\ arg = [ x |-> 1, y |-> 0, color_id |-> 0 ] => res = << 1, 0, 0, 0 >>
    /\ arg = [ x |-> 0, y |-> 1, color_id |-> 0 ] => res = << 54, 6, 0, 0 >>
    /\ arg = [ x |-> 0, y |-> 0, color_id |-> 1 ] => res = << 96, 180, 9, 0 >>

\* pack has been applied to the last pixel of the canvas in the last colour.
C9_Witness ==
  /\ arg = [ x |-> MAX_WIDTH - 1, y |-> MAX_HEIGHT - 1, color_id |-> MAX_COLOR_ID - 1 ]
  /\ res # NoRes

\* Squared Euclidean distance of two RGB triples.
SqEuclid(p, q) ==
  (p[1] - q[1]) * (p[1] - q[1]) + (p[2] - q[2]) * (p[2] - q[2])
  + (p[3] - q[3]) * (p[3] - q[3])

\* The palette indices (from 0) nearest to triple p.
Nearest(p) ==
  { i \in 0 .. Len(COLORS) - 1 :
      \A j \in 0 .. Len(COLORS) - 1 : SqEuclid(p, COLORS[i + 1]) <= SqEuclid(p, COLORS[j + 1]) }

\* C10: resolve_color_id returns the lowest palette index among those at
\* minimum squared distance, and exact iff that distance is zero.
C10_NearestLowest ==
  res # NoRes =>
    /\ res.id \in Nearest(arg)
    /\ \A i \in Nearest(arg) : res.id <= i
    /\ res.exact <=> (SqEuclid(arg, COLORS[res.id + 1]) = 0)
    /\ res.exact <=> (\E i \in 1 .. Len(COLORS) : COLORS[i] = arg)

\* resolve_color_id has been applied to a triple absent from the palette
\* with two palette entries at the minimum distance.
C10_Witness ==
  /\ res # NoRes
  /\ Cardinality(Nearest(arg)) >= 2
  /\ ~ res.exact

(***************************************************************************)
(* C1, C2: the sequence of records the shared PixelProvider hands out.     *)
(***************************************************************************)
\* (y, x) lexicographic order on records.
LexLess(a, b) == a.y < b.y \/ (a.y = b.y /\ a.x < b.x)

\* The k-th record position (from 1) of the row-major walk of the raster
\* laid at the brush offset.
RowMajorX(k) == brush.offset_x + ((k - 1) % image.width)
RowMajorY(k) == brush.offset_y + ((k - 1) \div image.width)

\* C1: over an R x C raster get_pixel returns at most R*C records, each
\* after the first above its predecessor in (y, x) order, no coordinate
\* twice, and once it has returned R*C records it is exhausted for good.
C1_RowMajorOnce ==
  provider # NoProvider =>
    /\ Len(emitted) <= image.width * image.height
    /\ \A i, j \in 1 .. Len(emitted) : i < j => LexLess(emitted[i].rec, emitted[j].rec)
    /\ provider.end => Len(emitted) = image.width * image.height

\* C2: the records handed to the workers, in pull order, are the row-major
\* sequence of the raster: no two pulls, by one worker or by two, return the
\* same record and none is skipped.
C2_NoDuplicateNoSkip ==
  /\ \A i, j \in 1 .. Len(emitted) :
       i # j => << emitted[i].rec.x, emitted[i].rec.y >> # << emitted[j].rec.x, emitted[j].rec.y >>
  /\ \A k \in 1 .. Len(emitted) :
       /\ image.width > 0
       /\ emitted[k].rec.x = RowMajorX(k)
       /\ emitted[k].rec.y = RowMajorY(k)

(***************************************************************************)
(* C3, C8: what a worker does with a close signal and with another error.  *)
(***************************************************************************)
\* C3: a close frame or a ConnectionClosed/AlreadyClosed error takes the
\* worker to one handshake with its own endpoint; success installs the new
\* handle and the worker receives again; failure ends the worker, which
\* makes no handshake afterwards. No other event makes a running worker
\* dial.
C3_ReconnectOnce ==
  [][ \A w \in Workers :
        /\ (pc[w] = "recv" /\ lastRecv'[w] \in CloseSignals)
             => /\ pc'[w] = "connect"
                /\ handshakes'[w] = handshakes[w]
                /\ conn'[w] = conn[w]
        /\ pc[w] = "connect" => lastRecv[w] \in CloseSignals
        /\ (pc[w] = "connect" /\ (pc'[w] # "connect" \/ handshakes'[w] # handshakes[w]))
             => /\ handshakes'[w] = handshakes[w] + 1
                /\ dialled'[w] = Urls[w]
                /\ \/ /\ pc'[w] = "recv"
                      /\ conn'[w] = handshakes'[w]
                      /\ conn'[w] # conn[w]
                      /\ link'[w] = "open"
                   \/ /\ pc'[w] \in Terminated
                      /\ conn'[w] = conn[w]
        /\ handshakes'[w] # handshakes[w] => pc[w] \in { "idle", "connect" }
        /\ pc[w] \in Terminated
             => pc'[w] = pc[w] /\ handshakes'[w] = handshakes[w] /\ conn'[w] = conn[w]
    ]_vars

\* One worker is Active on the handle of a reconnection while another has
\* ended on a failed reconnection.
C3_Witness ==
  \E w, v \in Workers :
    /\ pc[w] \in Active /\ conn[w] = 2 /\ handshakes[w] = 2
    /\ pc[v] = "panicked" /\ handshakes[v] = 2 /\ conn[v] = 1

\* The records worker w has pulled, with what was sent for each.
PulledBy(w, log) == { k \in 1 .. Len(log) : log[k].by = w }

C4_InFlightSurvives ==
  /\ \A w \in Workers :
       ( /\ cut[w] # NoCut
         /\ conn[w] > cut[w].conn
         /\ \E j \in PulledBy(w, emitted) : j > cut[w].k )
       => Len(emitted[cut[w].k].sent) = 1
  /\ \A k \in 1 .. Len(emitted) : Len(emitted[k].sent) <= 1

\* C5: a pulled record gets at most 5 send attempts; the first success
\* ends them; after the fifth failure the record is given up (it is not
\* sent, the provider is left as it is) and the worker receives again. A
\* record a worker no longer holds is never sent.
C5_SendRetry ==
  [][ /\ \A w \in Workers :
           /\ pc[w] = "send" => attempt[w] < SEND_ATTEMPTS /\ lock = w
           /\ pc[w] = "backoff" => attempt[w] \in 1 .. SEND_ATTEMPTS /\ lock = w
           /\ (pc[w] = "send" /\ pc'[w] # "send")
                => \/ /\ emitted'[held(w)].sent = << pack(pixel[w]) >>
                      /\ emitted[held(w)].sent = << >>
                      /\ pc'[w] = "recv" /\ pixel'[w] = NoPixel /\ lock' = Free
                   \/ /\ emitted' = emitted
                      /\ pc'[w] = "backoff" /\ attempt'[w] = attempt[w] + 1
                      /\ pixel'[w] = pixel[w]
           /\ (pc[w] = "backoff" /\ pc'[w] # "backoff")
                => /\ emitted' = emitted
                   /\ provider' = provider
                   /\ IF attempt[w] < SEND_ATTEMPTS
                        THEN pc'[w] = "send" /\ pixel'[w] = pixel[w]
                        ELSE pc'[w] = "recv" /\ pixel'[w] = NoPixel /\ lock' = Free
      /\ \A k \in 1 .. Len(emitted) :
           /\ Len(emitted[k].sent) <= 1
           /\ (lock = Free \/ k < Len(emitted)) => emitted'[k] = emitted[k]
    ]_vars

\* A worker has given up a record after five failed sends on an open
\* connection and is receiving again.
C5_Witness ==
  \E k \in 1 .. Len(emitted) :
    /\ emitted[k].sent = << >>
    /\ lock = Free
    /\ pc[emitted[k].by] = "recv"
    /\ link[emitted[k].by] = "open"
    /\ conn[emitted[k].by] = 1

(***************************************************************************)
(* C6, C7: the orchestrator and its workers.                               *)
(***************************************************************************)
\* C6: a failed handshake of one worker leaves every Active sibling in a
\* running process: main does not abort.
C6_FailureIsolated ==
  \A w, v \in Workers :
    (w # v /\ handshakes[w] > conn[w] /\ pc[v] \in Active \cup Reconnecting)
      => orch = "spawn"

\* C7: main has returned only if no worker it spawned is Active or
\* Reconnecting.
C7_ExitAfterAll ==
  orch \in { "exited", "aborted" }
    => \A w \in Workers : pc[w] \notin Active \cup Reconnecting

(***************************************************************************)
(* C11: the range checks of PixelProvider::new.                            *)
(***************************************************************************)
OutOfRange == brush.offset_x >= MAX_WIDTH \/ brush.offset_y >= MAX_HEIGHT

\* C11: with offset_x >= 1590 or offset_y >= 400, PixelProvider::new fails
\* with the out-of-range error of the first axis out of range, whether or
\* not the image can be decoded and whatever it holds; no provider exists
\* and no worker is ever created.
C11_OutOfRangeFailsFirst ==
  OutOfRange =>
    /\ provider = NoProvider
    /\ \A w \in Workers : pc[w] = "idle" /\ handshakes[w] = 0
    /\ nextBot = 0
    /\ \/ orch = "new" /\ failure = NoFailure
       \/ /\ orch = "aborted"
          /\ failure = IF brush.offset_x >= MAX_WIDTH
                         THEN "X axis is out of range"
                         ELSE "Y axis is out of range"

\* main has returned the Y-axis error for an image that cannot be decoded.
C11_Witness ==
  /\ brush.offset_y >= MAX_HEIGHT
  /\ ~ decodable
  /\ orch = "aborted"
  /\ failure = "Y axis is out of range"

(***************************************************************************)
(* C12: how long the provider's mutex is held.                             *)
(***************************************************************************)
\* C12: a worker holds the provider's lock for the get_pixel call only: a
\* worker that is sending a record, or sleeping between two failed sends,
\* does not hold it, so a sibling waiting for the lock can take it.
C12_LockOnlyForPull ==
  \A w \in Workers : pc[w] \in { "send", "backoff" } => lock # w

(***************************************************************************)
(* The program under its scheduler.  A tokio task whose await is ready is  *)
(* polled: a sleep that has been started completes, a send completes with  *)
(* a result, and tokio's Mutex hands the lock to its waiters in order.     *)
(* Nothing obliges the peer to send a frame or to answer a handshake, so   *)
(* Recv, PeerClose, BotNew and Reconnect carry no fairness.                *)
(***************************************************************************)
Scheduling ==
  /\ WF_vars(ProviderNew)
  /\ WF_vars(Collect)
  /\ \A w \in Workers :
       /\ WF_vars(TimerFire(w))
       /\ SF_vars(Pull(w))
       /\ WF_vars(\E ok \in BOOLEAN : Send(w, ok))
       /\ WF_vars(Backoff(w))

SpecLive == Spec /\ Scheduling

(***************************************************************************)
(* C13: painting and receiving.                                            *)
(***************************************************************************)
\* C13: on an RGB raster with pixels, a worker that is waiting for a frame
\* on an open connection with its timer finished, while the provider is not
\* exhausted and the process runs, eventually leaves that wait to pull a
\* record, whether or not a frame arrives.
C13_PaintsWithoutInbound ==
  \A w \in Workers :
    ( /\ image.rgb8 /\ image.width >= 1 /\ image.height >= 1
      /\ orch = "spawn" /\ pc[w] = "recv" /\ link[w] = "open"
      /\ timer[w] = "finished" /\ ~ provider.end )
      ~> ( pc[w] # "recv" \/ link[w] # "open" \/ orch # "spawn" \/ provider.end )

(***************************************************************************)
(* C14: one user of a connection at a time.                                *)
(***************************************************************************)
\* Worker w's connection is acted on in this step: it is replaced, a
\* handshake is made for it, a frame is received from it or sent on it.
Replaced(w) == conn'[w] # conn[w] \/ handshakes'[w] # handshakes[w]
Received(w) == lastRecv'[w] # lastRecv[w] /\ lastRecv'[w] # NoMsg
Sent(w) ==
  \E k \in 1 .. Len(emitted) : emitted[k].by = w /\ emitted'[k].sent # emitted[k].sent

\* C14: on a worker's connection at most one of send, receive and
\* replacement acts in a step, each only at its own place in Bot::run; the
\* connection is not replaced while a send or its retries are in flight;
\* and a step that acts on one worker's connection is that worker's own: it
\* moves no other worker and touches no other connection.
C14_OneUserOfConnection ==
  [][ \A w \in Workers :
        /\ Replaced(w) => pc[w] \in { "idle", "connect" } /\ ~ Received(w) /\ ~ Sent(w)
        /\ Received(w) => pc[w] = "recv" /\ ~ Sent(w)
        /\ Sent(w) => pc[w] = "send"
        /\ pc[w] \in { "send", "backoff" } => ~ Replaced(w) /\ ~ Received(w)
        /\ (Replaced(w) \/ Received(w) \/ Sent(w))
             => \A v \in Workers \ { w } :
                  /\ pc'[v] = pc[v]
                  /\ ~ Replaced(v) /\ ~ Received(v) /\ ~ Sent(v)
    ]_vars

\* A worker is sending on its second connection while its sibling is
\* reconnecting.
C14_Witness ==
  \E w, v \in Workers :
    /\ w # v
    /\ pc[w] = "send" /\ conn[w] = 2
    /\ pc[v] = "connect"

(***************************************************************************)
(* C15: the delay between two paints of a worker.                          *)
(***************************************************************************)
\* Worker w's get_pixel call returns a record in this step.
Pulls(w) == PulledBy(w, emitted') # PulledBy(w, emitted)

\* Worker w's paint attempt ends in this step: the record was sent, or the
\* fifth send failed.
PaintEnds(w) == pc[w] \in { "send", "backoff" } /\ pc'[w] = "recv"

\* C15: when a paint attempt ends, sent or given up, the worker's timer is
\* replaced by a running sleep of 65 to 180 seconds; a running timer
\* finishes only by its sleep completing; and a worker pulls only with its
\* timer finished. So between two pulls of a worker a whole delay passes.
C15_DelayBetweenPulls ==
  [][ \A w \in Workers :
        /\ PaintEnds(w)
             => timer'[w] = "running" /\ sleeping'[w] \in SLEEP_MIN .. SLEEP_MAX
        /\ Pulls(w) => timer[w] = "finished" /\ sleeping[w] = 0
        /\ (pc[w] \in { "lock", "send", "backoff" } /\ ~ PaintEnds(w))
             => timer'[w] = timer[w] \/ pc'[w] \in Terminated
        /\ (timer[w] = "running" /\ timer'[w] = "finished")
             => /\ sleeping'[w] = 0
                /\ \A v \in Workers : pc'[v] = pc[v]
                /\ emitted' = emitted
        /\ (timer[w] = "running" /\ sleeping[w] > 0 /\ sleeping'[w] # sleeping[w])
             => sleeping'[w] = 0 /\ timer'[w] \in { "finished", "dropped" }
    ]_vars

\* A worker has pulled its second record: its first paint ended, the delay
\* that followed has passed.
C15_Witness ==
  \E w \in Workers :
    /\ Cardinality(PulledBy(w, emitted)) = 2
    /\ pc[w] = "send"
    /\ timer[w] = "finished"

(***************************************************************************)
(* C16: what get_pixel reads and returns.                                  *)
(***************************************************************************)
\* C16: every record get_pixel has returned is (x0 + dx, y0 + dy) with the
\* palette index of the raster's pixel at (dx, dy), for a position
\* 0 <= dx < width, 0 <= dy < height of the raster; and get_pixel has read
\* the raster at no position outside it.
C16_RecordsWithinRaster ==
  provider # NoProvider =>
    /\ \A k \in 1 .. Len(emitted) :
         \E dx \in 0 .. image.width - 1, dy \in 0 .. image.height - 1 :
           /\ emitted[k].rec.x = provider.initial[1] + dx
           /\ emitted[k].rec.y = provider.initial[2] + dy
           /\ emitted[k].rec.color_id
                = LET c == raster_pixel(dx, dy) IN resolve_color_id(c[1], c[2], c[3]).id
    /\ \A p \in reads : p[1] < image.width /\ p[2] < image.height

(***************************************************************************)
(* C17: normal completion.                                                 *)
(***************************************************************************)
\* C17: the provider is exhausted after the last row, so that every worker
\* ends at its next pull and main returns: on an RGB raster with pixels,
\* once width * height records have been returned, the next get_pixel call
\* returns None.
C17_ExhaustedAfterLastRow ==
  ( /\ provider # NoProvider
    /\ image.rgb8 /\ image.width >= 1 /\ image.height >= 1
    /\ Len(emitted) >= image.width * image.height )
    => LET r == get_pixel(provider) IN r.out = NoPixel /\ ~ r.panic

(***************************************************************************)
(* C18: why a running worker stops.                                        *)
(***************************************************************************)
\* C18: a worker that has been Active no longer runs only because its pull
\* returned None ("done"), because connection.next() yielded an error that
\* is not a close ("failed") or because its reconnection failed (the last
\* handshake of a "panicked" worker did not give it a connection). Nothing
\* else ends it: while main has not collected it, it is in a running
\* process, Active or Reconnecting.
C18_StopsOnlyByEndOrFatal ==
  \A w \in Workers :
    pc[w] # "idle" =>
      \/ orch = "spawn" /\ pc[w] \in Active \cup Reconnecting
      \/ pc[w] = "done"
      \/ pc[w] = "failed"
      \/ pc[w] = "panicked" /\ handshakes[w] > conn[w]

(***************************************************************************)
(* C19: the end flag of the provider.                                      *)
(***************************************************************************)
\* Worker w's get_pixel call returns in this step.
Called(w) == pc[w] = "lock" /\ pc'[w] # "lock"

\* C19: once the provider's end flag is set, no step clears it or moves the
\* cursor, and every get_pixel call returns None, ending its caller; and
\* the call that sets the flag returns None too, having read no pixel of
\* the raster and returned no record.
C19_EndIsSticky ==
  [][ provider # NoProvider =>
        /\ provider.end
             => /\ provider' = provider
                /\ \A w \in Workers :
                     Called(w) => pc'[w] = "done" /\ emitted' = emitted /\ reads' = reads
        /\ (~ provider.end /\ provider'.end)
             => /\ emitted' = emitted
                /\ reads' = reads
                /\ \E w \in Workers : Called(w) /\ pc'[w] = "done"
    ]_vars

\* Both workers have ended on None: one by the call that set the flag, the
\* other by a later call, with the cursor where the first left it.
C19_Witness ==
  /\ provider # NoProvider
  /\ provider.end
  /\ \A w \in Workers : pc[w] = "done"

(***************************************************************************)
(* C20: pack is injective and in range on the canvas.                      *)
(***************************************************************************)
\* The record a command value stands for.
Decode(v) ==
  [ x |-> v % MAX_WIDTH, y |-> (v \div MAX_WIDTH) % MAX_HEIGHT, color_id |-> v \div SIZE ]

\* C20: on every record within the canvas the value pack encodes lies in
\* 0 .. 15,899,999, below i32::MAX, so the i32 sum does not overflow; it
\* decodes back to the record; and no other record within the canvas is
\* packed to the same bytes.
C20_PackInjectiveInRange ==
  res # NoRes =>
    /\ LeValue(res) \in 0 .. MAX_COLOR_ID * SIZE - 1
    /\ MAX_COLOR_ID * SIZE = 15900000
    /\ LeValue(res) < I32_MAX
    /\ Decode(LeValue(res)) = arg
    /\ \A other \in PackInputs : pack(other) = res => other = arg

\* pack has been applied to the last pixel of the first row in the first
\* colour, whose value is one below that of the first pixel of the next row.
C20_Witness ==
  /\ arg = [ x |-> MAX_WIDTH - 1, y |-> 0, color_id |-> 0 ]
  /\ res = << 53, 6, 0, 0 >>

====
